---- MODULE Spec2Model ----
(***************************************************************************)
(* HeroUI MCP server: the document extractor (heroUiScraper: fetchHtml,    *)
(* getComponentList, getComponentExamples, getComponentApi) and the tool   *)
(* adapter (MinimalMcpServer.registerTools: the three tool handlers).      *)
(*                                                                         *)
(* JavaScript strings are TLA+ strings (Len, \o and SubSeq act on them).   *)
(* An optional value (undefined | string) is a sequence of length 0 or 1.  *)
(* A thrown value is a record: an Error instance carries isError = TRUE,   *)
(* whether it is a ScrapingError, and its message; any other thrown value  *)
(* carries isError = FALSE and the text String(value) gives.               *)
(***************************************************************************)
EXTENDS Integers, Sequences, FiniteSets, TLC

VARIABLES tool, componentName, response, outcome, result, logs, console

vars == <<tool, componentName, response, outcome, result, logs, console>>

(***************************************************************************)
(* Bounds of the model.                                                    *)
(***************************************************************************)
MaxLinks == 3
MaxPreviews == 2
MaxHeadings == 2
MaxReturned == 2

(***************************************************************************)
(* JavaScript string and array primitives used by the source.              *)
(***************************************************************************)
\* the apostrophe of the message templates
APOS == "'"

None == <<>>
Some(s) == <<s>>

WhiteSpace == {" ", "\t", "\n", "\r"}

CharAt(s, i) == SubSeq(s, i, i)

StartsWith(s, p) == Len(p) <= Len(s) /\ SubSeq(s, 1, Len(p)) = p

EndsWith(s, p) == Len(p) <= Len(s) /\ SubSeq(s, Len(s) - Len(p) + 1, Len(s)) = p

Includes(s, p) == \E i \in 1..(Len(s) - Len(p) + 1) : SubSeq(s, i, i + Len(p) - 1) = p

RECURSIVE TrimStart(_)
TrimStart(s) ==
    IF Len(s) > 0 /\ CharAt(s, 1) \in WhiteSpace
    THEN TrimStart(SubSeq(s, 2, Len(s)))
    ELSE s

RECURSIVE TrimEnd(_)
TrimEnd(s) ==
    IF Len(s) > 0 /\ CharAt(s, Len(s)) \in WhiteSpace
    THEN TrimEnd(SubSeq(s, 1, Len(s) - 1))
    ELSE s

Trim(s) == TrimEnd(TrimStart(s))

UpperLetters == "ABCDEFGHIJKLMNOPQRSTUVWXYZ"
LowerLetters == "abcdefghijklmnopqrstuvwxyz"

LowerChar(c) ==
    IF \E i \in 1..26 : CharAt(UpperLetters, i) = c
    THEN CharAt(LowerLetters, CHOOSE i \in 1..26 : CharAt(UpperLetters, i) = c)
    ELSE c

RECURSIVE ToLowerCase(_)
ToLowerCase(s) ==
    IF Len(s) = 0 THEN ""
    ELSE LowerChar(CharAt(s, 1)) \o ToLowerCase(SubSeq(s, 2, Len(s)))

\* s.split(sep).pop() for a one-character separator: the text after the last
\* separator, the whole string when it holds none.
SplitPop(s, sep) ==
    LET at == {i \in 1..Len(s) : CharAt(s, i) = sep}
    IN  IF at = {} THEN s
        ELSE LET last == CHOOSE i \in at : \A j \in at : j <= i
             IN  SubSeq(s, last + 1, Len(s))

RECURSIVE Join(_, _)
Join(lines, sep) ==
    IF Len(lines) = 0 THEN ""
    ELSE IF Len(lines) = 1 THEN lines[1]
    ELSE lines[1] \o sep \o Join(Tail(lines), sep)

\* All sequences over S of length at most n.
SeqUpTo(S, n) == UNION {[1..k -> S] : k \in 0..n}

(***************************************************************************)
(* config.ts                                                               *)
(***************************************************************************)
BASE_URL == "https://www.heroui.com/docs"

ScrapingError(message) == [isError |-> TRUE, scraping |-> TRUE, message |-> message]

\* error instanceof Error ? error.message : String(error)
MessageOf(error) == IF error.isError THEN error.message ELSE error.str

Return(v) == [kind |-> "return", value |-> v]
Throw(e) == [kind |-> "throw", error |-> e]

(***************************************************************************)
(* fetchHtml: r is what fetch(url) does: a response with a status, a       *)
(* status text and a body whose text() resolves or rejects, or a rejected  *)
(* request.                                                                *)
(***************************************************************************)
ResponseOk(r) == r.status >= 200 /\ r.status <= 299

fetchHtml(url, r) ==
    IF r.kind = "reject"
    THEN Throw(ScrapingError("Network error fetching " \o url \o ": " \o MessageOf(r.error)))
    ELSE IF ~ResponseOk(r)
    THEN Throw(ScrapingError("Failed to fetch " \o url \o ": " \o r.statusText))
    ELSE IF r.kind = "textReject"
    THEN Throw(ScrapingError("Network error fetching " \o url \o ": " \o MessageOf(r.error)))
    ELSE Return(r.body)

(***************************************************************************)
(* getComponentList.  The fetched page is read through the anchors of the  *)
(* document, in document order: whether the anchor lies inside a nav       *)
(* element, its href attribute and its text.                               *)
(***************************************************************************)
COMPONENTS_PREFIX == "/docs/components/"

\* $('nav a[href^="/docs/components/"]')
NavComponentAnchors(anchors) ==
    SelectSeq(anchors, LAMBDA a : a.inNav /\ StartsWith(a.href, COMPONENTS_PREFIX))

\* the entry pushed without the test of the name
ComponentOfAnchorAnyName(a) ==
    IF a.href # "" /\ ~EndsWith(a.href, "/components/")
    THEN <<[name |-> Trim(a.text),
            url |-> IF StartsWith(a.href, "http") THEN a.href
                    ELSE "https://www.heroui.com" \o a.href]>>
    ELSE <<>>

\* the body of the .each callback: the entry the anchor pushes, if any
ComponentOfAnchor(a) ==
    LET href == a.href
        name == Trim(a.text)
    IN  IF href # "" /\ name # "" /\ ~EndsWith(href, "/components/")
        THEN <<[name |-> name,
                url |-> IF StartsWith(href, "http") THEN href
                        ELSE "https://www.heroui.com" \o href]>>
        ELSE <<>>

RECURSIVE CollectComponents(_, _)
CollectComponents(selected, components) ==
    IF Len(selected) = 0 THEN components
    ELSE CollectComponents(Tail(selected), components \o ComponentOfAnchor(Head(selected)))

getComponentList(r) ==
    LET fetched == fetchHtml(BASE_URL \o "/guide/introduction", r)
    IN  IF fetched.kind = "throw"
        THEN [out |-> Throw(ScrapingError("Failed to get component list: "
                                          \o MessageOf(fetched.error))),
              console |-> <<<<"error", "Error fetching component list:">>>>]
        ELSE LET components == CollectComponents(NavComponentAnchors(fetched.value), <<>>)
             IN  [out |-> Return(components),
                  console |-> IF Len(components) = 0
                              THEN <<<<"warn", "Could not find components using the primary selector. Check site structure.">>>>
                              ELSE <<>>]

(***************************************************************************)
(* getComponentExamples.  The fetched page is read through its preview     *)
(* containers (div[data-slot="component-preview"]), in document order:     *)
(* prevH3 holds the texts of the h3 siblings before the container, nearest *)
(* first; codes holds the elements 'pre code' finds inside it, each with   *)
(* its optional class attribute and its text.                              *)
(***************************************************************************)
ComponentUrl(name) == BASE_URL \o "/components/" \o ToLowerCase(name)

RECURSIVE ConcatText(_)
ConcatText(elements) ==
    IF Len(elements) = 0 THEN ""
    ELSE Head(elements).text \o ConcatText(Tail(elements))

\* the language without the fallback for an empty suffix
LanguageOfNoFallback(codes) ==
    IF Len(codes) = 0 \/ codes[1].class = None THEN "typescript"
    ELSE SplitPop(codes[1].class[1], "-")

\* codeElement.attr('class')?.split('-').pop() || 'typescript'
LanguageOf(codes) ==
    LET class == IF Len(codes) = 0 THEN None ELSE codes[1].class
        popped == IF class = None THEN None ELSE Some(SplitPop(class[1], "-"))
    IN  IF popped = None \/ popped = Some("") THEN "typescript" ELSE popped[1]

\* $previewDiv.prevAll('h3').first().text().trim() || undefined
TitleOf(prevH3) ==
    LET text == IF Len(prevH3) = 0 THEN "" ELSE Trim(prevH3[1])
    IN  IF text = "" THEN None ELSE Some(text)

\* the body of the .each callback: the entry the container pushes, if any
ExampleOfPreview(p) ==
    LET title == TitleOf(p.prevH3)
        code == Trim(ConcatText(p.codes))
        language == LanguageOf(p.codes)
    IN  IF code # ""
        THEN <<[title |-> title, code |-> code, language |-> language]>>
        ELSE <<>>

\* the scan given up at the first container that yields no entry
RECURSIVE CollectExamplesStopAtEmpty(_, _)
CollectExamplesStopAtEmpty(previews, examples) ==
    IF Len(previews) = 0 \/ ExampleOfPreview(Head(previews)) = <<>> THEN examples
    ELSE CollectExamplesStopAtEmpty(Tail(previews), examples \o ExampleOfPreview(Head(previews)))

RECURSIVE CollectExamples(_, _)
CollectExamples(previews, examples) ==
    IF Len(previews) = 0 THEN examples
    ELSE CollectExamples(Tail(previews), examples \o ExampleOfPreview(Head(previews)))

\* error.message.includes('404')
LooksNotFound(error) == Includes(error.message, "404")

\* the catch block of getComponentExamples
CatchExamples(name, error) ==
    IF error.isError /\ error.scraping /\ ~LooksNotFound(error)
    THEN Throw(error)
    ELSE IF ~(error.isError /\ error.scraping)
    THEN Throw(ScrapingError("Failed to get examples for " \o name \o ": " \o MessageOf(error)))
    ELSE Return(<<>>)

getComponentExamples(name, r) ==
    LET fetched == fetchHtml(ComponentUrl(name), r)
    IN  IF fetched.kind = "throw"
        THEN [out |-> CatchExamples(name, fetched.error),
              console |-> <<<<"error", "Error fetching examples for " \o name \o ":">>>>]
        ELSE LET examples == CollectExamples(fetched.value, <<>>)
             IN  [out |-> Return(examples),
                  console |-> IF Len(examples) = 0
                              THEN <<<<"warn", "No examples found for " \o name
                                       \o " using the current selectors. The page structure might differ.">>>>
                              ELSE <<>>]

(***************************************************************************)
(* getComponentApi.  The fetched page is read through its h3 headings, in  *)
(* document order: the heading's text and table, the rows ('tbody tr') of  *)
(* the table that directly follows the heading (None when the next sibling *)
(* is no table); a row is the sequence of the texts of its td cells.       *)
(***************************************************************************)
PropOfRow(cells) ==
    IF Len(cells) >= 2
    THEN <<[name |-> Trim(cells[1]),
            type |-> Trim(cells[2]),
            description |-> IF Len(cells) > 2 THEN Some(Trim(cells[3])) ELSE None,
            defaultValue |-> IF Len(cells) > 3 THEN Some(Trim(cells[4])) ELSE None]>>
    ELSE <<>>

EventOfRow(cells) ==
    IF Len(cells) >= 2
    THEN <<[name |-> Trim(cells[1]),
            type |-> Trim(cells[2]),
            description |-> IF Len(cells) > 2 THEN Some(Trim(cells[3])) ELSE None]>>
    ELSE <<>>

RECURSIVE CollectProps(_, _)
CollectProps(rows, props) ==
    IF Len(rows) = 0 THEN props
    ELSE CollectProps(Tail(rows), props \o PropOfRow(Head(rows)))

RECURSIVE CollectEvents(_, _)
CollectEvents(rows, events) ==
    IF Len(rows) = 0 THEN events
    ELSE CollectEvents(Tail(rows), events \o EventOfRow(Head(rows)))

\* the body of the $('h3').each callback
ScanHeading(h3, api) ==
    LET title == ToLowerCase(Trim(h3.text))
    IN  IF h3.table = None THEN api
        ELSE IF Includes(title, "props")
        THEN [api EXCEPT !.props = CollectProps(h3.table[1], api.props)]
        ELSE IF Includes(title, "events")
        THEN [api EXCEPT !.events = CollectEvents(h3.table[1], api.events)]
        ELSE api

RECURSIVE ScanHeadings(_, _)
ScanHeadings(headings, api) ==
    IF Len(headings) = 0 THEN api
    ELSE ScanHeadings(Tail(headings), ScanHeading(Head(headings), api))

\* null
Null == [null |-> TRUE]

\* null as soon as one of the two sequences is empty
ApiOrNullEitherEmpty(api) ==
    IF Len(api.props) = 0 \/ Len(api.events) = 0 THEN Null ELSE api

\* if (api.props.length === 0 && api.events.length === 0) return null;
ApiOrNull(api) ==
    IF Len(api.props) = 0 /\ Len(api.events) = 0 THEN Null ELSE api

\* the catch block of getComponentApi
CatchApi(name, error) ==
    IF error.isError /\ error.scraping /\ ~LooksNotFound(error)
    THEN Throw(error)
    ELSE IF ~(error.isError /\ error.scraping)
    THEN Throw(ScrapingError("Failed to get API for " \o name \o ": " \o MessageOf(error)))
    ELSE Return(Null)

getComponentApi(name, r) ==
    LET fetched == fetchHtml(ComponentUrl(name), r)
    IN  IF fetched.kind = "throw"
        THEN [out |-> CatchApi(name, fetched.error),
              console |-> <<<<"error", "Error fetching API for " \o name \o ":">>>>]
        ELSE LET api == ScanHeadings(fetched.value, [props |-> <<>>, events |-> <<>>])
             IN  [out |-> Return(ApiOrNull(api)),
                  console |-> IF ApiOrNull(api) = Null
                              THEN <<<<"warn", "No API information found for " \o name
                                       \o " using current selectors.">>>>
                              ELSE <<>>]

(***************************************************************************)
(* MinimalMcpServer.registerTools: the three tool handlers.  A handler is  *)
(* given what the extractor call did (out: a returned value or a thrown    *)
(* one) and yields what the handler itself did (result: a returned         *)
(* envelope, or a value thrown to the host) and the log entries it sent.   *)
(* An envelope carries the field isError only when the code sets it.       *)
(***************************************************************************)
Returned(envelope) == [kind |-> "returned", envelope |-> envelope]
Threw(error) == [kind |-> "threw", error |-> error]

TextItem(text) == [type |-> "text", text |-> text]

Info(text) == <<"info", text>>
Error(text) == <<"error", text>>

\* the separator the source writes as '\\n': a backslash followed by the letter n
SEP == "\\n"

\* the catch block of the get_heroui_component_list handler
CatchList(error) ==
    LET message == MessageOf(error)
    IN  [result |-> Returned([isError |-> TRUE,
                              content |-> <<TextItem("Error fetching component list: " \o message)>>]),
         logs |-> <<Error("Error in get_heroui_component_list tool: " \o message)>>]

ComponentLine(c) == "- " \o c.name \o " (" \o c.url \o ")"

\* the template literal of the listing: the banner, the separator, the joined lines
ComponentListText(components) ==
    "Available HeroUI Components:" \o SEP
        \o Join([i \in 1..Len(components) |-> ComponentLine(components[i])], SEP)

ListEnvelope(components) ==
    IF Len(components) = 0
    THEN [content |-> <<TextItem("Could not find any components. The documentation structure might have changed.")>>]
    ELSE [content |-> <<TextItem(ComponentListText(components))>>]

get_heroui_component_list(out) ==
    LET started == <<Info("Executing get_heroui_component_list tool")>>
    IN  IF out.kind = "throw"
        THEN LET caught == CatchList(out.error)
             IN  [result |-> caught.result, logs |-> started \o caught.logs]
        ELSE [result |-> Returned(ListEnvelope(out.value)), logs |-> started]

\* the catch block of the get_heroui_component_examples handler
CatchExamplesTool(name, error) ==
    LET message == MessageOf(error)
    IN  [result |-> Returned([isError |-> TRUE,
                              content |-> <<TextItem("Error fetching examples for " \o name
                                                     \o ": " \o message)>>]),
         logs |-> <<Error("Error in get_heroui_component_examples tool for " \o name
                          \o ": " \o message)>>]

\* examples.map(ex => ({ type: "code", ...ex }))
CodeItem(ex) ==
    [type |-> "code", title |-> ex.title, code |-> ex.code, language |-> ex.language]

ExamplesEnvelope(name, examples) ==
    IF Len(examples) = 0
    THEN [content |-> <<TextItem("No examples found for component " \o APOS \o name
                                 \o APOS \o ". Check the component name or the documentation structure.")>>]
    ELSE [content |-> [i \in 1..Len(examples) |-> CodeItem(examples[i])]]

get_heroui_component_examples(name, out) ==
    LET started == <<Info("Executing get_heroui_component_examples tool for: " \o name)>>
    IN  IF out.kind = "throw"
        THEN LET caught == CatchExamplesTool(name, out.error)
             IN  [result |-> caught.result, logs |-> started \o caught.logs]
        ELSE [result |-> Returned(ExamplesEnvelope(name, out.value)), logs |-> started]

\* the handler without its catch block: the fault goes on to the host
CatchApiToolRethrows(name, error) == [result |-> Threw(error), logs |-> <<>>]

\* the catch block of the get_heroui_component_api handler
CatchApiTool(name, error) ==
    LET message == MessageOf(error)
    IN  [result |-> Returned([isError |-> TRUE,
                              content |-> <<TextItem("Error fetching API for " \o name
                                                     \o ": " \o message)>>]),
         logs |-> <<Error("Error in get_heroui_component_api tool for " \o name
                          \o ": " \o message)>>]

\* The grave accent of the message templates.  SANY does not lex that character
\* inside a string, so a character that occurs in no other text of the model
\* stands for it.
BT == "~"

\* an optional string is truthy when it is set and not empty
Truthy(opt) == opt # None /\ opt # Some("")

PropLine(p) ==
    "- " \o BT \o p.name \o BT \o ": " \o BT \o p.type \o BT
        \o (IF Truthy(p.defaultValue) THEN " (default: " \o BT \o p.defaultValue[1] \o BT \o ")" ELSE "")
        \o (IF Truthy(p.description) THEN " - " \o p.description[1] ELSE "")

EventLine(e) ==
    "- " \o BT \o e.name \o BT \o ": " \o BT \o e.type \o BT
        \o (IF Truthy(e.description) THEN " - " \o e.description[1] ELSE "")

ApiText(name, api) ==
    "API for " \o name \o ":" \o SEP \o SEP
        \o (IF Len(api.props) > 0
            THEN "**Props:**" \o SEP
                 \o Join([i \in 1..Len(api.props) |-> PropLine(api.props[i])], SEP)
                 \o SEP \o SEP
            ELSE "")
        \o (IF Len(api.events) > 0
            THEN "**Events:**" \o SEP
                 \o Join([i \in 1..Len(api.events) |-> EventLine(api.events[i])], SEP)
            ELSE "")

\* an absent value answered as a fault
ApiEnvelopeAbsentAsError(name, api) ==
    IF api = Null
    THEN [isError |-> TRUE,
          content |-> <<TextItem("No API documentation found for component " \o APOS \o name
                                 \o APOS \o ". Check the component name or the documentation structure.")>>]
    ELSE [content |-> <<TextItem(Trim(ApiText(name, api)))>>]

ApiEnvelope(name, api) ==
    IF api = Null
    THEN [content |-> <<TextItem("No API documentation found for component " \o APOS \o name
                                 \o APOS \o ". Check the component name or the documentation structure.")>>]
    ELSE LET text == Trim(ApiText(name, api))
         IN  [content |-> <<TextItem(IF text = "" THEN "No API details extracted." ELSE text)>>]

get_heroui_component_api(name, out) ==
    LET started == <<Info("Executing get_heroui_component_api tool for: " \o name)>>
    IN  IF out.kind = "throw"
        THEN LET caught == CatchApiTool(name, out.error)
             IN  [result |-> caught.result, logs |-> started \o caught.logs]
        ELSE [result |-> Returned(ApiEnvelope(name, out.value)), logs |-> started]

(***************************************************************************)
(* The inputs of the model: component names, what fetch does, and pages.   *)
(***************************************************************************)
ComponentNames == {"button", "Switch", "error404", "", "../x"}

NetworkError == [isError |-> TRUE, scraping |-> FALSE, message |-> "socket hang up"]

OkResponse(body) ==
    [kind |-> "response", status |-> 200, statusText |-> "OK", body |-> body]

StatusResponse(status, statusText) ==
    [kind |-> "response", status |-> status, statusText |-> statusText]

NotFoundResponses == {StatusResponse(404, "Not Found"), StatusResponse(404, "")}

OtherFailures ==
    {StatusResponse(500, "Internal Server Error"),
     StatusResponse(503, ""),
     [kind |-> "reject", error |-> NetworkError],
     [kind |-> "textReject", status |-> 200, statusText |-> "OK", error |-> NetworkError]}

FailureResponses == NotFoundResponses \cup OtherFailures

Anchor(inNav, href, text) == [inNav |-> inNav, href |-> href, text |-> text]

Anchors ==
    {Anchor(TRUE, "/docs/components/button", "Button"),
     Anchor(TRUE, "/docs/components/card", " Card\n"),
     Anchor(TRUE, "/docs/components/", "Components"),
     Anchor(TRUE, "/docs/components/icon", "  "),
     Anchor(TRUE, "/docs/components/tabs/components/", "Tabs"),
     Anchor(TRUE, "/docs/guide/installation", "Installation"),
     Anchor(TRUE, "https://github.com/heroui-inc/heroui", "GitHub"),
     Anchor(FALSE, "/docs/components/modal", "Modal")}

ListResponses == {OkResponse(page) : page \in SeqUpTo(Anchors, MaxLinks)} \cup FailureResponses

Code(class, text) == [class |-> class, text |-> text]

Preview(prevH3, codes) == [prevH3 |-> prevH3, codes |-> codes]

Previews ==
    {Preview(<<"Basic Usage">>, <<Code(Some("language-jsx"), "<Button>Click</Button>")>>),
     Preview(<<>>, <<>>),
     Preview(<<>>, <<Code(None, " const a = 1;\n")>>),
     Preview(<<"  ", "Usage">>, <<Code(Some("jsx"), "<Card/>")>>),
     Preview(<<"Sizes">>, <<Code(Some("language-"), "<Tabs/>")>>),
     Preview(<<>>, <<Code(Some("language-tsx"), " \n ")>>),
     Preview(<<>>, <<Code(Some(""), "x")>>),
     Preview(<<"Two">>, <<Code(Some("hljs language-ts"), "a"), Code(Some("language-js"), "b")>>)}

ExamplesResponses ==
    {OkResponse(page) : page \in SeqUpTo(Previews, MaxPreviews)} \cup FailureResponses

Heading(text, table) == [text |-> text, table |-> table]

Headings ==
    {Heading("Props", Some(<<<<"isSelected", "boolean", "Whether selected", "">>>>)),
     Heading(" Accordion Props ", Some(<<<<"size", "string">>, <<"orphan">>>>)),
     Heading("Button props", Some(<<<<" color ", "string", "The color", "primary", "extra">>>>)),
     Heading("Events", Some(<<<<"onPress", "(e) => void", "Press handler">>, <<"onChange", "fn">>>>)),
     Heading("Props", None),
     Heading("Slots", Some(<<<<"base", "string">>>>)),
     Heading("Events", Some(<<<<"lonely">>>>)),
     Heading("Props and Events", Some(<<<<"x", "y", "">>>>))}

ApiResponses ==
    {OkResponse(page) : page \in SeqUpTo(Headings, MaxHeadings)} \cup FailureResponses

(***************************************************************************)
(* The server answering tool calls: each Call action is one whole tool     *)
(* invocation, from the request of the host to the value the handler       *)
(* returns; Deliver hands that value to the host, after which the server   *)
(* waits for the next request.  Invocations share no state, so the model   *)
(* follows one at a time.                                                  *)
(***************************************************************************)
NoCall == [kind |-> "none"]

Idle == tool = "none"

Init ==
    /\ tool = "none"
    /\ componentName = ""
    /\ response = NoCall
    /\ outcome = NoCall
    /\ result = NoCall
    /\ logs = <<>>
    /\ console = <<>>

CallList ==
    /\ Idle
    /\ \E r \in ListResponses :
           LET extracted == getComponentList(r)
               handled == get_heroui_component_list(extracted.out)
           IN  /\ tool' = "list"
               /\ componentName' = ""
               /\ response' = r
               /\ outcome' = extracted.out
               /\ result' = handled.result
               /\ logs' = handled.logs
               /\ console' = extracted.console

CallExamples ==
    /\ Idle
    /\ \E name \in ComponentNames, r \in ExamplesResponses :
           LET extracted == getComponentExamples(name, r)
               handled == get_heroui_component_examples(name, extracted.out)
           IN  /\ tool' = "examples"
               /\ componentName' = name
               /\ response' = r
               /\ outcome' = extracted.out
               /\ result' = handled.result
               /\ logs' = handled.logs
               /\ console' = extracted.console

CallApi ==
    /\ Idle
    /\ \E name \in ComponentNames, r \in ApiResponses :
           LET extracted == getComponentApi(name, r)
               handled == get_heroui_component_api(name, extracted.out)
           IN  /\ tool' = "api"
               /\ componentName' = name
               /\ response' = r
               /\ outcome' = extracted.out
               /\ result' = handled.result
               /\ logs' = handled.logs
               /\ console' = extracted.console

Deliver ==
    /\ ~Idle
    /\ tool' = "none"
    /\ componentName' = ""
    /\ response' = NoCall
    /\ outcome' = NoCall
    /\ result' = NoCall
    /\ logs' = <<>>
    /\ console' = <<>>

Next == CallList \/ CallExamples \/ CallApi \/ Deliver

Spec == Init /\ [][Next]_vars

(***************************************************************************)
(* The tool adapter alone: the handlers given any outcome of the extractor *)
(* call, a returned value or a thrown value of any kind.                   *)
(***************************************************************************)
Stubbed == [kind |-> "stub"]

ThrownValues ==
    {ScrapingError("Failed to fetch https://www.heroui.com/docs/components/x: Bad Gateway"),
     [isError |-> TRUE, scraping |-> FALSE, message |-> "Cannot read properties of undefined"],
     [isError |-> TRUE, scraping |-> FALSE, message |-> ""],
     [isError |-> FALSE, str |-> "timeout"]}

ComponentReferences ==
    {[name |-> "Button", url |-> "https://www.heroui.com/docs/components/button"],
     [name |-> "Card", url |-> "https://www.heroui.com/docs/components/card"],
     [name |-> "Date Picker", url |-> "https://www.heroui.com/docs/components/date-picker"]}

ListOutcomes ==
    {Return(cs) : cs \in SeqUpTo(ComponentReferences, MaxReturned)}
        \cup {Throw(e) : e \in ThrownValues}

CodeExamples ==
    {[title |-> Some("Basic Usage"), code |-> "<Button>Click</Button>", language |-> "jsx"],
     [title |-> None, code |-> "const a = 1;", language |-> "typescript"]}

ExamplesOutcomes ==
    {Return(es) : es \in SeqUpTo(CodeExamples, MaxReturned)}
        \cup {Throw(e) : e \in ThrownValues}

ApiProperties ==
    {[name |-> "isSelected", type |-> "boolean", description |-> Some("Whether selected"),
      defaultValue |-> Some("")],
     [name |-> "size", type |-> "string", description |-> None, defaultValue |-> None],
     [name |-> "color", type |-> "string", description |-> Some("The color"),
      defaultValue |-> Some("primary")]}

ApiEvents ==
    {[name |-> "onPress", type |-> "(e) => void", description |-> Some("Press handler")],
     [name |-> "onChange", type |-> "fn", description |-> None]}

ApiOutcomes ==
    {Return(Null)}
        \cup {Return([props |-> ps, events |-> es]) :
                 ps \in SeqUpTo(ApiProperties, MaxReturned),
                 es \in SeqUpTo(ApiEvents, MaxReturned)}
        \cup {Throw(e) : e \in ThrownValues}

HandleList ==
    /\ Idle
    /\ \E out \in ListOutcomes :
           LET handled == get_heroui_component_list(out)
           IN  /\ tool' = "list"
               /\ componentName' = ""
               /\ response' = Stubbed
               /\ outcome' = out
               /\ result' = handled.result
               /\ logs' = handled.logs
               /\ console' = <<>>

HandleExamples ==
    /\ Idle
    /\ \E name \in ComponentNames, out \in ExamplesOutcomes :
           LET handled == get_heroui_component_examples(name, out)
           IN  /\ tool' = "examples"
               /\ componentName' = name
               /\ response' = Stubbed
               /\ outcome' = out
               /\ result' = handled.result
               /\ logs' = handled.logs
               /\ console' = <<>>

HandleApi ==
    /\ Idle
    /\ \E name \in ComponentNames, out \in ApiOutcomes :
           LET handled == get_heroui_component_api(name, out)
           IN  /\ tool' = "api"
               /\ componentName' = name
               /\ response' = Stubbed
               /\ outcome' = out
               /\ result' = handled.result
               /\ logs' = handled.logs
               /\ console' = <<>>

NextAdapter == HandleList \/ HandleExamples \/ HandleApi \/ Deliver

SpecAdapter == Init /\ [][NextAdapter]_vars

(***************************************************************************)
(* Properties of the tool adapter (checked under SpecAdapter).             *)
(***************************************************************************)
Answered == tool # "none"

HasErrorFlag(envelope) == "isError" \in DOMAIN envelope /\ envelope.isError = TRUE

WellFormed(envelope) ==
    /\ "content" \in DOMAIN envelope
    /\ Len(envelope.content) >= 1
    /\ \A i \in 1..Len(envelope.content) : envelope.content[i].type \in {"text", "code"}

\* C1: whatever the extractor call did (a non-empty value, an empty or absent
\* one, a thrown ScrapingError, another Error, a thrown value that is no Error),
\* each of the three handlers ends by returning a response envelope; nothing is
\* thrown to the host.
C1_HandlerAlwaysReturnsEnvelope ==
    Answered => result.kind = "returned" /\ WellFormed(result.envelope)

C1_Witness ==
    /\ tool = "api"
    /\ outcome.kind = "throw"
    /\ ~outcome.error.isError
    /\ result.kind = "returned"

NothingFound ==
    /\ outcome.kind = "return"
    /\ IF tool = "api" THEN outcome.value = Null ELSE Len(outcome.value) = 0

NothingFoundText ==
    CASE tool = "list" -> "Could not find any components."
      [] tool = "examples" -> "No examples found for component " \o APOS \o componentName \o APOS
      [] tool = "api" -> "No API documentation found for component " \o APOS \o componentName \o APOS

\* C2: the envelope carries the error flag exactly when the extractor call
\* raised a fault; an empty sequence (list, examples) or an absent value (API)
\* gives an envelope without the flag whose content is one text item saying that
\* nothing was found.
C2_ErrorFlagIffFault ==
    Answered /\ result.kind = "returned" =>
        /\ HasErrorFlag(result.envelope) <=> outcome.kind = "throw"
        /\ NothingFound =>
              /\ "isError" \notin DOMAIN result.envelope
              /\ Len(result.envelope.content) = 1
              /\ result.envelope.content[1].type = "text"
              /\ StartsWith(result.envelope.content[1].text, NothingFoundText)

C2_Witness ==
    /\ tool = "api"
    /\ outcome = Return(Null)
    /\ result.kind = "returned"
    /\ ~HasErrorFlag(result.envelope)

\* C9: for a non-empty sequence of component references the text of the list
\* envelope is the banner line followed by one line "- name (url)" per entry, in
\* order, the banner and the lines separated by a newline character.
C9_ListTextNewlineJoined ==
    tool = "list" /\ outcome.kind = "return" /\ Len(outcome.value) > 0 =>
        result.envelope.content[1].text =
            "Available HeroUI Components:" \o "\n"
                \o Join([i \in 1..Len(outcome.value) |->
                            "- " \o outcome.value[i].name \o " (" \o outcome.value[i].url \o ")"],
                        "\n")

(***************************************************************************)
(* Properties of the extractor (checked under Spec).                       *)
(***************************************************************************)
Fetched == response.kind = "response" /\ ResponseOk(response)

\* C3: when the GET of the component page is answered 404, getComponentExamples
\* returns an empty sequence and getComponentApi returns null; neither raises.
C3_NotFoundYieldsEmpty ==
    tool \in {"examples", "api"} /\ response \in NotFoundResponses =>
        outcome = Return(IF tool = "api" THEN Null ELSE <<>>)

\* C4: a fetch fault that is no not-found condition (another non-success status,
\* a connection failure) makes getComponentExamples and getComponentApi raise a
\* ScrapingError, whatever the component identifier; it is never downgraded to
\* an empty or absent value.
C4_OtherFaultsRaise ==
    tool \in {"examples", "api"} /\ response \in OtherFailures =>
        outcome.kind = "throw" /\ outcome.error.isError /\ outcome.error.scraping

\* what a page shows of its API tables, read off the headings
IsPropsHeading(h) == h.table # None /\ Includes(ToLowerCase(Trim(h.text)), "props")

IsEventsHeading(h) ==
    /\ h.table # None
    /\ ~Includes(ToLowerCase(Trim(h.text)), "props")
    /\ Includes(ToLowerCase(Trim(h.text)), "events")

HasEntryRow(h) == \E k \in 1..Len(h.table[1]) : Len(h.table[1][k]) >= 2

PageHasProps(page) == \E i \in 1..Len(page) : IsPropsHeading(page[i]) /\ HasEntryRow(page[i])

PageHasEvents(page) == \E i \in 1..Len(page) : IsEventsHeading(page[i]) /\ HasEntryRow(page[i])

\* C5: on a fetched page getComponentApi returns null exactly when neither a
\* props entry nor an events entry was collected; a returned ComponentApi has at
\* least one prop or one event, and a page with props entries and no events
\* entries is returned with its props and an empty events sequence.
C5_NullIffBothEmpty ==
    tool = "api" /\ Fetched =>
        /\ outcome.kind = "return"
        /\ outcome.value = Null <=> ~PageHasProps(response.body) /\ ~PageHasEvents(response.body)
        /\ outcome.value # Null => Len(outcome.value.props) + Len(outcome.value.events) > 0
        /\ PageHasProps(response.body) /\ ~PageHasEvents(response.body) =>
              /\ outcome.value # Null
              /\ Len(outcome.value.props) > 0
              /\ outcome.value.events = <<>>

C5_Witness ==
    /\ tool = "api"
    /\ Fetched
    /\ PageHasProps(response.body)
    /\ \A i \in 1..Len(response.body) : ~Includes(ToLowerCase(response.body[i].text), "events")
    /\ outcome.kind = "return"
    /\ outcome.value # Null
    /\ outcome.value.events = <<>>

\* the entry the specification gives a Props row: none under two cells; the
\* third and fourth cell as description and defaultValue, an optional field
\* being absent when its cell is missing or its text is empty
ClaimedOptional(cells, k) ==
    IF Len(cells) >= k /\ Trim(cells[k]) # "" THEN Some(Trim(cells[k])) ELSE None

ClaimedPropOfRow(cells) ==
    IF Len(cells) < 2 THEN <<>>
    ELSE <<[name |-> Trim(cells[1]),
            type |-> Trim(cells[2]),
            description |-> ClaimedOptional(cells, 3),
            defaultValue |-> ClaimedOptional(cells, 4)]>>

RECURSIVE ClaimedRows(_)
ClaimedRows(rows) ==
    IF Len(rows) = 0 THEN <<>>
    ELSE ClaimedPropOfRow(Head(rows)) \o ClaimedRows(Tail(rows))

RECURSIVE ClaimedProps(_)
ClaimedProps(page) ==
    IF Len(page) = 0 THEN <<>>
    ELSE (IF IsPropsHeading(Head(page)) THEN ClaimedRows(Head(page).table[1]) ELSE <<>>)
             \o ClaimedProps(Tail(page))

ReturnedProps == IF outcome.value = Null THEN <<>> ELSE outcome.value.props

\* C6: every body row of a Props table gives no entry when it has fewer than
\* two cells, an entry without description and defaultValue when it has two,
\* and an entry with both when it has a third and a fourth cell; an optional
\* field is never the empty string (an empty fourth cell leaves defaultValue
\* absent).
C6_PropsRowsOptionalNeverEmpty ==
    tool = "api" /\ Fetched /\ outcome.kind = "return" =>
        ReturnedProps = ClaimedProps(response.body)

\* a preview container whose code text, trimmed, is not empty
HasCode(p) == Trim(ConcatText(p.codes)) # ""

\* C7: on a fetched page getComponentExamples returns one entry per preview
\* container whose code text, trimmed, is not empty, in the document order of
\* the containers; a container without code adds nothing and leaves the entries
\* of the others as they are; every entry has non-empty code.
C7_OneEntryPerContainerWithCode ==
    tool = "examples" /\ Fetched =>
        LET withCode == SelectSeq(response.body, HasCode)
        IN  /\ outcome.kind = "return"
            /\ Len(outcome.value) = Len(withCode)
            /\ \A i \in 1..Len(withCode) :
                  /\ outcome.value[i].code = Trim(ConcatText(withCode[i].codes))
                  /\ outcome.value[i].code # ""
                  /\ <<outcome.value[i]>> = ExampleOfPreview(withCode[i])

C7_Witness ==
    /\ tool = "examples"
    /\ Fetched
    /\ Len(response.body) = 2
    /\ ~HasCode(response.body[1])
    /\ HasCode(response.body[2])
    /\ outcome.kind = "return"
    /\ Len(outcome.value) = 1

\* a qualifying link as the specification words it: the destination begins
\* with the components-root prefix and is not the root link itself
ClaimedQualifying(a) == StartsWith(a.href, COMPONENTS_PREFIX) /\ a.href # COMPONENTS_PREFIX

IsAbsolute(url) == StartsWith(url, "https://") \/ StartsWith(url, "http://")

ListedLink(a) ==
    /\ a.inNav
    /\ StartsWith(a.href, COMPONENTS_PREFIX)
    /\ ~EndsWith(a.href, "/components/")
    /\ Trim(a.text) # ""

ClassOf(p) == IF Len(p.codes) = 0 THEN None ELSE p.codes[1].class

HasHyphen(class) == \E i \in 1..Len(class) : CharAt(class, i) = "-"

\* the text after the last hyphen of a class that holds one
Suffix(class) ==
    LET n == CHOOSE n \in 0..Len(class) :
                 /\ CharAt(class, Len(class) - n) = "-"
                 /\ ~HasHyphen(SubSeq(class, Len(class) - n + 1, Len(class)))
    IN  SubSeq(class, Len(class) - n + 1, Len(class))

\* the language the specification gives a class attribute
ClaimedLanguage(class) ==
    IF class = None THEN "typescript"
    ELSE IF ~HasHyphen(class[1]) THEN "typescript"
    ELSE IF Suffix(class[1]) = "" THEN "typescript"
    ELSE Suffix(class[1])

\* C10 as stated: the language of an example is the suffix of the class of its
\* code block when the class carries one, and "typescript" when the block has
\* no class or the class has no parseable suffix (no hyphen, or a hyphen at its
\* end); it is never empty.
C10_LanguageFromClassSuffix ==
    tool = "examples" /\ Fetched /\ outcome.kind = "return" =>
        LET withCode == SelectSeq(response.body, HasCode)
        IN  /\ Len(outcome.value) = Len(withCode)
            /\ \A i \in 1..Len(outcome.value) :
                  /\ outcome.value[i].language = ClaimedLanguage(ClassOf(withCode[i]))
                  /\ outcome.value[i].language # ""

\* the language the code gives a class attribute, read off the class
AmendedLanguage(class) ==
    IF class = None THEN "typescript"
    ELSE IF ~HasHyphen(class[1])
    THEN (IF class[1] = "" THEN "typescript" ELSE class[1])
    ELSE IF Suffix(class[1]) = "" THEN "typescript"
    ELSE Suffix(class[1])

\* C10 amended: the language is the text after the last hyphen of the class of
\* the code block, the whole class when it holds no hyphen, and "typescript"
\* when the block has no class or that text is empty; it is never empty.
C10_LanguageAfterLastHyphen ==
    tool = "examples" /\ Fetched /\ outcome.kind = "return" =>
        LET withCode == SelectSeq(response.body, HasCode)
        IN  /\ Len(outcome.value) = Len(withCode)
            /\ \A i \in 1..Len(outcome.value) :
                  /\ outcome.value[i].language = AmendedLanguage(ClassOf(withCode[i]))
                  /\ outcome.value[i].language # ""

C10_Witness ==
    /\ tool = "examples"
    /\ Fetched
    /\ outcome.kind = "return"
    /\ \E i \in 1..Len(outcome.value), j \in 1..Len(outcome.value), k \in 1..Len(response.body) :
          /\ outcome.value[i].language = "jsx"
          /\ outcome.value[j].language = "typescript"
          /\ ClassOf(response.body[k]) = Some("jsx")

====
